---- MODULE Spec2Model ----
(***************************************************************************)
(* Model of src/sw.js: the YSK-SALES service worker.                       *)
(*                                                                         *)
(* State: the cache storage (the ordered list of existing cache stores and *)
(* the entries of each), the install and activate handlers' progress, and  *)
(* one task per handled fetch event (its position, its local values, its   *)
(* network fetch and its un-awaited cache.put).                            *)
(*                                                                         *)
(* Every `await` of the source is a point where other tasks may run.  A    *)
(* caches.open is folded into the step that follows it: opening only       *)
(* appends an empty store of a whitelisted name, which no other task can   *)
(* tell from the store being opened a moment earlier.                      *)
(***************************************************************************)
EXTENDS Integers, Sequences, FiniteSets, TLC

VARIABLES
    cacheNames,     \* names of the existing cache stores, in creation order (caches.keys())
    content,        \* content[name]: the entries of the store, a function from url to response
    unreachable,    \* the precache paths whose fetch cannot succeed during this install
    pcInstall,      \* position of the install handler
    adds,           \* adds[k]: state of cache.add(toURL(PRECACHE_URLS[k]))
    installResult,  \* how the promise given to install's waitUntil settled
    pcActivate,     \* position of the activate handler
    names,          \* activate's local `names` (the snapshot caches.keys() returned)
    deleting,       \* the caches.delete(n) calls issued and not yet completed
    claimed,        \* self.clients.claim() has run
    task            \* task[i]: the i-th fetch event's handling

vars == <<cacheNames, content, unreachable, pcInstall, adds, installResult,
          pcActivate, names, deleting, claimed, task>>

----------------------------------------------------------------------------
(* Bounds *)

\* How many fetch events are handled (concurrently or one after another).
NumRequests == 2

\* How many cache stores of earlier versions may be left in storage.
NumLegacy == 1

----------------------------------------------------------------------------
(* Configuration constants of sw.js *)

APP_CACHE == "ysk-app-shell-v3"
RUNTIME_CACHE == "ysk-runtime-v3"
EXT_STYLES == "ysk-ext-styles-v1"
EXT_FONTS == "ysk-ext-fonts-v1"
EXT_LIBS == "ysk-ext-libs-v1"

\* self.registration.scope and self.location.origin of the deployment.
Scope == "https://ysk.test/app/"
LocationOrigin == "https://ysk.test"

toURL(path) == Scope \o path

PRECACHE_URLS ==
    << "", "index.html", "manifest.json", "YSK-SALES.png", "mobile.png",
       "whatsapp.png", "web-domain.png", "gmail.png", "scanner.html" >>

\* The stores an earlier version of the worker left behind.
LegacyName(k) == "ysk-cache-v" \o ToString(k)
LegacyNames == {LegacyName(k) : k \in 1..NumLegacy}

\* Variant: the whitelist still lists a name of the previous version.
whitelistKeepsOldName ==
    {APP_CACHE, RUNTIME_CACHE, EXT_STYLES, EXT_FONTS, EXT_LIBS, LegacyName(1)}

whitelist == {APP_CACHE, RUNTIME_CACHE, EXT_STYLES, EXT_FONTS, EXT_LIBS}

----------------------------------------------------------------------------
(* URLs: what `new URL(request.url)` reads off the URL string *)

\* The least index >= from at which sub occurs in s, or 0.
IndexOf(s, sub, from) ==
    LET hits == {i \in from..(Len(s) - Len(sub) + 1) : SubSeq(s, i, i + Len(sub) - 1) = sub}
    IN  IF hits = {} THEN 0 ELSE CHOOSE i \in hits : \A j \in hits : i <= j

\* String.prototype.includes
Includes(s, sub) == IndexOf(s, sub, 1) # 0

HostStart(u) == IndexOf(u, "://", 1) + 3

\* One past the authority (scheme://host[:port]) of u.
AuthorityEnd(u) ==
    LET slash == IndexOf(u, "/", HostStart(u))
    IN  IF slash = 0 THEN Len(u) + 1 ELSE slash

Origin(u) == SubSeq(u, 1, AuthorityEnd(u) - 1)

Hostname(u) ==
    LET authority == SubSeq(u, HostStart(u), AuthorityEnd(u) - 1)
        colon     == IndexOf(authority, ":", 1)
    IN  IF colon = 0 THEN authority ELSE SubSeq(authority, 1, colon - 1)

isSameOrigin(request) == Origin(request.url) = LocationOrigin

----------------------------------------------------------------------------
(* Responses and the values a task holds *)

Value(kind, url, by, status, body) ==
    [kind |-> kind, url |-> url, by |-> by, status |-> status, body |-> body]

\* `undefined`: what cache.match gives on a miss, what .catch(() => undefined) gives.
Undefined == Value("undefined", "", 0, 0, "")

\* The response the network returned to the fetch of task i (by = 0: to the install).
NetworkResponse(url, i) == Value("network", url, i, 200, "")

\* An entry left in storage by an earlier session.
PersistedResponse(url) == Value("persisted", url, 0, 200, "")

Offline503 == Value("synthetic", "", 0, 503, "You are offline and no cached content is available.")

Empty504 == Value("synthetic", "", 0, 504, "")

\* A promise still pending, a rejection, the promise object `networkPromise`,
\* and the case in which respondWith was never called.
Pending == Value("pending", "", 0, 0, "")
Rejected == Value("rejected", "", 0, 0, "")
NetworkPromise == Value("promise", "", 0, 0, "")
NotIntercepted == Value("not-intercepted", "", 0, 0, "")

IsResponse(v) == v.kind \in {"network", "persisted", "synthetic"}

\* JavaScript truthiness of the values above: only undefined is falsy.
Truthy(v) == v # Undefined

----------------------------------------------------------------------------
(* Requests: the fetch events' inputs *)

Request(method, mode, url, destination) ==
    [method |-> method, mode |-> mode, url |-> url, destination |-> destination]

NavigateRoot == Request("GET", "navigate", toURL(""), "document")
ScriptAsset == Request("GET", "no-cors", toURL("assets/app.js"), "script")
ImageAsset == Request("GET", "no-cors", toURL("photo.png"), "image")
Stylesheet == Request("GET", "no-cors", "https://fonts.googleapis.com/css2", "style")
FontFile == Request("GET", "cors", "https://fonts.gstatic.com/s/inter.woff2", "font")
LibScript == Request("GET", "no-cors", "https://cdn.jsdelivr.net/npm/lib.js", "script")
PostSale == Request("POST", "cors", toURL("api/sales"), "")
OtherHost == Request("GET", "cors", "https://api.other.test/v1", "")

\* A form submission (a POST navigation), a POST to a font host, and a font
\* whose hostname contains both the stylesheet and the font host names.
PostForm == Request("POST", "navigate", toURL("login"), "document")
PostFont == Request("POST", "cors", "https://fonts.gstatic.com/report", "")
TwoFontHosts ==
    Request("GET", "cors", "https://fonts.googleapis.com.fonts.gstatic.com/s/inter.woff2", "font")

AllRequests ==
    {NavigateRoot, ScriptAsset, ImageAsset, Stylesheet, FontFile, LibScript,
     PostSale, OtherHost, PostForm, PostFont, TwoFontHosts}

\* The application's own traffic: its page, its assets and its stylesheet.
Requests == {NavigateRoot, ScriptAsset, ImageAsset, Stylesheet}

StoreNames == whitelist \cup LegacyNames

----------------------------------------------------------------------------
(* The cache storage *)

EmptyStore == <<>>

\* The entry of a store's entries under url, or undefined.
Entry(entries, url) == IF url \in DOMAIN entries THEN entries[url] ELSE Undefined

Exists(name) == \E k \in DOMAIN cacheNames : cacheNames[k] = name

\* caches.open(name): the store is created, last in order, when it does not exist.
Opened(name) == IF Exists(name) THEN cacheNames ELSE Append(cacheNames, name)

\* cache.match(url) on the store `name`.
CacheMatch(name, url) == Entry(content[name], url)

\* Variant: the lookup is scoped to the runtime store.
CachesMatchRuntimeOnly(url) == Entry(content[RUNTIME_CACHE], url)

\* caches.match(request): the first store, in creation order, holding the key.
CachesMatch(url) ==
    LET hits == {k \in DOMAIN cacheNames : url \in DOMAIN content[cacheNames[k]]}
    IN  IF hits = {} THEN Undefined
        ELSE content[cacheNames[CHOOSE k \in hits : \A j \in hits : k <= j]][url]

\* cache.put(url, response) on the store `name`, once it completes.
Stored(name, url, response) ==
    [content EXCEPT ![name] = (url :> response) @@ @]

\* caches.delete(name): the store and its entries are gone.
Without(name) == SelectSeq(cacheNames, LAMBDA n : n # name)
Dropped(name) == [content EXCEPT ![name] = EmptyStore]

----------------------------------------------------------------------------
(* Initial state: the worker script has been evaluated; storage holds what   *)
(* earlier sessions left: any subset of the legacy stores, each with a stale *)
(* copy of the script asset, and possibly the stylesheet store (its name     *)
(* did not change with the version) with a stylesheet from that session.     *)

Slots == 1..NumRequests

IdleTask ==
    [pc |-> "idle", req |-> PostSale, strategy |-> "", cacheName |-> "",
     cached |-> Undefined, net |-> "none", put |-> "none", putStore |-> "",
     result |-> Pending]

\* The legacy stores of `old`, oldest first.
LegacySeq(old) ==
    LET RECURSIVE upTo(_)
        upTo(k) == IF k = 0 THEN <<>>
                   ELSE IF k \in old THEN Append(upTo(k - 1), LegacyName(k))
                   ELSE upTo(k - 1)
    IN  upTo(NumLegacy)

InitialContent(styles) ==
    [n \in StoreNames |->
        IF n \in LegacyNames
            THEN (ScriptAsset.url :> PersistedResponse(ScriptAsset.url))
        ELSE IF n = EXT_STYLES /\ styles
            THEN (Stylesheet.url :> PersistedResponse(Stylesheet.url))
        ELSE EmptyStore]

InitStorage ==
    \E old \in SUBSET (1..NumLegacy), styles \in BOOLEAN :
        /\ cacheNames = LegacySeq(old) \o (IF styles THEN <<EXT_STYLES>> ELSE <<>>)
        /\ content = InitialContent(styles)

InitHandlers ==
    /\ pcInstall = "idle"
    /\ adds = [k \in DOMAIN PRECACHE_URLS |-> "none"]
    /\ installResult = "pending"
    /\ pcActivate = "idle"
    /\ names = <<>>
    /\ deleting = {}
    /\ claimed = FALSE
    /\ task = [i \in Slots |-> IdleTask]

\* The precache entries the fetch handler falls back to.
Fallbacks == {k \in DOMAIN PRECACHE_URLS : PRECACHE_URLS[k] \in {"index.html", "YSK-SALES.png"}}

\* The install finds the whole precache list reachable, or the two fallback
\* entries unreachable.
Init ==
    /\ InitStorage
    /\ InitHandlers
    /\ unreachable \in {{}, Fallbacks}

\* An upgrade: every legacy store is still there, and the stylesheet store may be.
InitUpgrade ==
    /\ \E styles \in BOOLEAN :
          /\ cacheNames = LegacySeq(1..NumLegacy) \o (IF styles THEN <<EXT_STYLES>> ELSE <<>>)
          /\ content = InitialContent(styles)
    /\ InitHandlers
    /\ unreachable \in {{}, Fallbacks}

\* A first install into empty storage, with any part of the precache list
\* unreachable.
InitInstall ==
    /\ cacheNames = <<>>
    /\ content = [n \in StoreNames |-> EmptyStore]
    /\ InitHandlers
    /\ unreachable \in SUBSET DOMAIN PRECACHE_URLS

----------------------------------------------------------------------------
(* install (sw.js 30-39) *)

\* Variant: Promise.all over the adds, rejected as soon as one add is rejected.
PromiseAll(settled) ==
    IF \E k \in DOMAIN settled : settled[k] = "rejected" THEN "rejected"
    ELSE IF \A k \in DOMAIN settled : settled[k] = "fulfilled" THEN "fulfilled"
    ELSE "pending"

\* Promise.allSettled over the adds: fulfilled once every add has settled.
PromiseAllSettled(settled) ==
    IF \A k \in DOMAIN settled : settled[k] \in {"fulfilled", "rejected"}
        THEN "fulfilled" ELSE "pending"

\* The install event: skipWaiting, open the shell store, start every cache.add.
InstallEvent ==
    /\ pcInstall = "idle"
    /\ pcInstall' = "adding"
    /\ cacheNames' = Opened(APP_CACHE)
    /\ adds' = [k \in DOMAIN PRECACHE_URLS |-> "fetching"]
    /\ UNCHANGED <<content, unreachable, installResult, pcActivate, names, deleting,
                   claimed, task>>

\* cache.add(url) settles: it stores the response of a successful fetch, and is
\* rejected when the fetch fails or its response is not ok.
AddSettles(k) ==
    /\ pcInstall = "adding"
    /\ adds[k] = "fetching"
    /\ IF k \in unreachable
          THEN /\ adds' = [adds EXCEPT ![k] = "rejected"]
               /\ UNCHANGED content
          ELSE /\ adds' = [adds EXCEPT ![k] = "fulfilled"]
               /\ content' = Stored(APP_CACHE, toURL(PRECACHE_URLS[k]),
                                    NetworkResponse(toURL(PRECACHE_URLS[k]), 0))
    /\ UNCHANGED <<cacheNames, unreachable, pcInstall, installResult, pcActivate, names,
                   deleting, claimed, task>>

\* The promise given to waitUntil settles, and with it the install.
InstallSettles ==
    /\ pcInstall = "adding"
    /\ PromiseAllSettled(adds) # "pending"
    /\ pcInstall' = "done"
    /\ installResult' = IF PromiseAllSettled(adds) = "fulfilled" THEN "installed" ELSE "failed"
    /\ UNCHANGED <<cacheNames, content, unreachable, adds, pcActivate, names, deleting,
                   claimed, task>>

----------------------------------------------------------------------------
(* activate (sw.js 41-52) *)

\* The test of line 47: the stores activate deletes.
IsStale(n) == n \notin whitelist

\* The activate event, once the install has succeeded: caches.keys() returns the
\* names, and a caches.delete is issued for every name outside the whitelist.
ActivateEvent ==
    /\ installResult = "installed"
    /\ pcActivate = "idle"
    /\ names' = cacheNames
    /\ deleting' = {cacheNames[k] : k \in {j \in DOMAIN cacheNames : IsStale(cacheNames[j])}}
    /\ pcActivate' = "deleting"
    /\ UNCHANGED <<cacheNames, content, unreachable, pcInstall, adds, installResult,
                   claimed, task>>

\* One caches.delete(n) completes.
CacheDeleted(n) ==
    /\ pcActivate = "deleting"
    /\ n \in deleting
    /\ deleting' = deleting \ {n}
    /\ cacheNames' = Without(n)
    /\ content' = Dropped(n)
    /\ UNCHANGED <<unreachable, pcInstall, adds, installResult, pcActivate, names,
                   claimed, task>>

\* Variant: clients.claim() is not held back by the deletions.
ActivateClaimsAtOnce ==
    /\ pcActivate = "deleting"
    /\ claimed' = TRUE
    /\ pcActivate' = "done"
    /\ UNCHANGED <<cacheNames, content, unreachable, pcInstall, adds, installResult,
                   names, deleting, task>>

\* Promise.all has resolved: clients.claim(), and the handler completes.
ActivateClaims ==
    /\ pcActivate = "deleting"
    /\ deleting = {}
    /\ claimed' = TRUE
    /\ pcActivate' = "done"
    /\ UNCHANGED <<cacheNames, content, unreachable, pcInstall, adds, installResult,
                   names, deleting, task>>

----------------------------------------------------------------------------
(* fetch: classification and dispatch (sw.js 63-136) *)

IsStylesHost(h) == Includes(h, "fonts.googleapis.com")
IsFontsHost(h) == Includes(h, "fonts.gstatic.com")
\* Variant: every hostname is taken for a library host.
IsLibsHostAny(h) == TRUE

IsLibsHost(h) ==
    \/ Includes(h, "cdn.tailwindcss.com")
    \/ Includes(h, "cdn.jsdelivr.net")
    \/ Includes(h, "esm.sh")

\* Variant: the font host is tested before the stylesheet host.
StrategyFontsFirst(request) ==
    IF request.method # "GET" THEN "none"
    ELSE IF request.mode = "navigate" THEN "navigate"
    ELSE IF isSameOrigin(request) THEN "sameOrigin"
    ELSE IF IsFontsHost(Hostname(request.url)) THEN "cacheFirst"
    ELSE IF IsStylesHost(Hostname(request.url)) THEN "staleWhileRevalidate"
    ELSE IF IsLibsHost(Hostname(request.url)) THEN "cacheFirst"
    ELSE "none"

\* Variant: the method is not tested.
StrategyAnyMethod(request) ==
    IF request.mode = "navigate" THEN "navigate"
    ELSE IF isSameOrigin(request) THEN "sameOrigin"
    ELSE IF IsStylesHost(Hostname(request.url)) THEN "staleWhileRevalidate"
    ELSE IF IsFontsHost(Hostname(request.url)) THEN "cacheFirst"
    ELSE IF IsLibsHost(Hostname(request.url)) THEN "cacheFirst"
    ELSE "none"

\* The branch of the fetch handler that answers the request ("none": the
\* handler returns without calling respondWith).
Strategy(request) ==
    IF request.method # "GET" THEN "none"
    ELSE IF request.mode = "navigate" THEN "navigate"
    ELSE IF isSameOrigin(request) THEN "sameOrigin"
    ELSE IF IsStylesHost(Hostname(request.url)) THEN "staleWhileRevalidate"
    ELSE IF IsFontsHost(Hostname(request.url)) THEN "cacheFirst"
    ELSE IF IsLibsHost(Hostname(request.url)) THEN "cacheFirst"
    ELSE "none"

\* Variant: the font branch names the library store.
CacheNameOfFontsInLibs(request) ==
    IF request.method # "GET" THEN ""
    ELSE IF request.mode = "navigate" THEN RUNTIME_CACHE
    ELSE IF isSameOrigin(request) THEN RUNTIME_CACHE
    ELSE IF IsStylesHost(Hostname(request.url)) THEN EXT_STYLES
    ELSE IF IsFontsHost(Hostname(request.url)) THEN EXT_LIBS
    ELSE IF IsLibsHost(Hostname(request.url)) THEN EXT_LIBS
    ELSE ""

\* The store the branch names.
CacheNameOf(request) ==
    IF request.method # "GET" THEN ""
    ELSE IF request.mode = "navigate" THEN RUNTIME_CACHE
    ELSE IF isSameOrigin(request) THEN RUNTIME_CACHE
    ELSE IF IsStylesHost(Hostname(request.url)) THEN EXT_STYLES
    ELSE IF IsFontsHost(Hostname(request.url)) THEN EXT_FONTS
    ELSE IF IsLibsHost(Hostname(request.url)) THEN EXT_LIBS
    ELSE ""

\* The first position of each branch.
EntryPoint(strategy) ==
    CASE strategy = "navigate" -> "fetch"
      [] strategy = "sameOrigin" -> "match"
      [] strategy = "staleWhileRevalidate" -> "lookup"
      [] strategy = "cacheFirst" -> "lookup"
      [] OTHER -> "done"

\* A fetch event reaches the worker once it is activating or active.  The
\* navigate branch starts its network fetch at once.
FetchEvent(i, request) ==
    /\ pcActivate # "idle"
    /\ task[i].pc = "idle"
    /\ IF i = 1 THEN TRUE ELSE task[i - 1].pc # "idle"
    /\ task' = [task EXCEPT ![i] =
            [@ EXCEPT !.req = request,
                      !.strategy = Strategy(request),
                      !.cacheName = CacheNameOf(request),
                      !.pc = EntryPoint(Strategy(request)),
                      !.net = IF Strategy(request) = "navigate" THEN "inflight" ELSE "none",
                      !.result = IF Strategy(request) = "none" THEN NotIntercepted ELSE Pending]]
    /\ UNCHANGED <<cacheNames, content, unreachable, pcInstall, adds, installResult,
                   pcActivate, names, deleting, claimed>>

\* The task's state once its network response has arrived and the handler has
\* opened `store`, started cache.put(request, response.clone()) without
\* awaiting it, and returned the response.
PutStartedAndReturned(t, i, store) ==
    [t EXCEPT !.net = "ok", !.put = "pending", !.putStore = store,
              !.result = NetworkResponse(t.req.url, i), !.pc = "done"]

\* A started cache.put completes: the store holds the task's network response.
PutCompletes(i) ==
    /\ task[i].put = "pending"
    /\ content' = Stored(task[i].putStore, task[i].req.url, NetworkResponse(task[i].req.url, i))
    /\ task' = [task EXCEPT ![i].put = "done"]
    /\ UNCHANGED <<cacheNames, unreachable, pcInstall, adds, installResult, pcActivate,
                   names, deleting, claimed>>

Others == <<cacheNames, content, unreachable, pcInstall, adds, installResult,
            pcActivate, names, deleting, claimed>>

Handlers == <<unreachable, pcInstall, adds, installResult, pcActivate, names,
              deleting, claimed>>

----------------------------------------------------------------------------
(* fetch: navigation, network-first (sw.js 70-92) *)

\* Variant: the navigation response is put in the shell store.
NavigateStoreShell == APP_CACHE

\* Line 75: the store the navigation response is put in.
NavigateStore == RUNTIME_CACHE

\* Lines 74-77: the network answered.
NavigateFetchOk(i) ==
    /\ task[i].strategy = "navigate"
    /\ task[i].pc = "fetch"
    /\ cacheNames' = Opened(NavigateStore)
    /\ task' = [task EXCEPT ![i] = PutStartedAndReturned(@, i, NavigateStore)]
    /\ UNCHANGED <<content, Handlers>>

\* Line 74 throws: the network failed.
NavigateFetchFails(i) ==
    /\ task[i].strategy = "navigate"
    /\ task[i].pc = "fetch"
    /\ task' = [task EXCEPT ![i] = [@ EXCEPT !.net = "failed", !.pc = "catch"]]
    /\ UNCHANGED Others

\* Variant: with no cached index.html the failure is rethrown.
OfflineFallbackRejects(cached) == IF Truthy(cached) THEN cached ELSE Rejected

\* Lines 81-87: cached || new Response(..., {status: 503})
OfflineFallback(cached) == IF Truthy(cached) THEN cached ELSE Offline503

\* Variant: the catch block also puts its answer in the runtime store.
NavigateCatchStoresAnswer(i) ==
    /\ task[i].strategy = "navigate"
    /\ task[i].pc = "catch"
    /\ cacheNames' = Opened(RUNTIME_CACHE)
    /\ content' = Stored(RUNTIME_CACHE, task[i].req.url,
                         OfflineFallback(CacheMatch(APP_CACHE, toURL("index.html"))))
    /\ task' = [task EXCEPT ![i] =
            [@ EXCEPT !.cached = CacheMatch(APP_CACHE, toURL("index.html")),
                      !.result = OfflineFallback(CacheMatch(APP_CACHE, toURL("index.html"))),
                      !.pc = "done"]]
    /\ UNCHANGED Handlers

\* Variant: the catch block answers from the runtime store's entry for the request.
NavigateCatchReadsRuntime(i) ==
    /\ task[i].strategy = "navigate"
    /\ task[i].pc = "catch"
    /\ cacheNames' = Opened(RUNTIME_CACHE)
    /\ task' = [task EXCEPT ![i] =
            [@ EXCEPT !.cached = CacheMatch(RUNTIME_CACHE, task[i].req.url),
                      !.result = OfflineFallback(CacheMatch(RUNTIME_CACHE, task[i].req.url)),
                      !.pc = "done"]]
    /\ UNCHANGED <<content, Handlers>>

\* Lines 79-87: the catch block answers from the shell store.
NavigateCatch(i) ==
    /\ task[i].strategy = "navigate"
    /\ task[i].pc = "catch"
    /\ cacheNames' = Opened(APP_CACHE)
    /\ task' = [task EXCEPT ![i] =
            [@ EXCEPT !.cached = CacheMatch(APP_CACHE, toURL("index.html")),
                      !.result = OfflineFallback(CacheMatch(APP_CACHE, toURL("index.html"))),
                      !.pc = "done"]]
    /\ UNCHANGED <<content, Handlers>>

----------------------------------------------------------------------------
(* fetch: same-origin assets, cache-first (sw.js 95-117) *)

\* Lines 98-99: caches.match over every store; a hit is returned, a miss
\* starts the network fetch.
SameOriginMatch(i) ==
    /\ task[i].strategy = "sameOrigin"
    /\ task[i].pc = "match"
    /\ task' = [task EXCEPT ![i] =
            IF Truthy(CachesMatch(task[i].req.url))
                THEN [@ EXCEPT !.cached = CachesMatch(task[i].req.url),
                               !.result = CachesMatch(task[i].req.url),
                               !.pc = "done"]
                ELSE [@ EXCEPT !.net = "inflight", !.pc = "fetch"]]
    /\ UNCHANGED Others

\* Variant: the asset is put in the shell store.
SameOriginStoreShell == APP_CACHE

\* Line 102: the store the asset is put in.
SameOriginStore == RUNTIME_CACHE

\* Lines 101-104: the network answered.
SameOriginFetchOk(i) ==
    /\ task[i].strategy = "sameOrigin"
    /\ task[i].pc = "fetch"
    /\ cacheNames' = Opened(SameOriginStore)
    /\ task' = [task EXCEPT ![i] = PutStartedAndReturned(@, i, SameOriginStore)]
    /\ UNCHANGED <<content, Handlers>>

\* Variant: the destination is not tested.
WantsFallbackAlways(request) == TRUE

\* Line 107: the requests the fallback image answers.
WantsImageFallback(request) == request.destination = "image"

\* Line 101 throws: the network failed.  The catch block awaits the shell
\* store for an image, and rethrows at once for anything else.
SameOriginFetchFails(i) ==
    /\ task[i].strategy = "sameOrigin"
    /\ task[i].pc = "fetch"
    /\ task' = [task EXCEPT ![i] =
            IF WantsImageFallback(task[i].req)
                THEN [@ EXCEPT !.net = "failed", !.pc = "catch"]
                ELSE [@ EXCEPT !.net = "failed", !.result = Rejected, !.pc = "done"]]
    /\ UNCHANGED Others

\* Lines 107-112: the catch block's outcome, given the shell store's fallback image.
ImageFallback(request, fallback) ==
    IF WantsImageFallback(request) /\ Truthy(fallback) THEN fallback ELSE Rejected

\* Lines 108-112: the catch block for an image.
SameOriginCatch(i) ==
    /\ task[i].strategy = "sameOrigin"
    /\ task[i].pc = "catch"
    /\ cacheNames' = Opened(APP_CACHE)
    /\ task' = [task EXCEPT ![i] =
            [@ EXCEPT !.result = ImageFallback(task[i].req, CacheMatch(APP_CACHE, toURL("YSK-SALES.png"))),
                      !.pc = "done"]]
    /\ UNCHANGED <<content, Handlers>>

----------------------------------------------------------------------------
(* staleWhileRevalidate (sw.js 138-148) *)

\* Variant: networkPromise || cached, which waits for the network.
SwrReturnsNetworkFirst(cached) == NetworkPromise

\* Line 147: cached || networkPromise || new Response('', {status: 504})
SwrReturns(cached) ==
    IF Truthy(cached) THEN cached
    ELSE IF Truthy(NetworkPromise) THEN NetworkPromise
    ELSE Empty504

\* Lines 139-147: the store is opened and looked up, the network fetch is
\* started, and the function returns; returning networkPromise leaves the
\* answer pending until that promise settles.
SwrLookup(i) ==
    /\ task[i].strategy = "staleWhileRevalidate"
    /\ task[i].pc = "lookup"
    /\ cacheNames' = Opened(task[i].cacheName)
    /\ task' = [task EXCEPT ![i] =
            LET cached == CacheMatch(task[i].cacheName, task[i].req.url)
            IN  IF SwrReturns(cached) = NetworkPromise
                    THEN [@ EXCEPT !.cached = cached, !.net = "inflight", !.pc = "wait"]
                    ELSE [@ EXCEPT !.cached = cached, !.net = "inflight",
                                   !.result = SwrReturns(cached), !.pc = "done"]]
    /\ UNCHANGED <<content, Handlers>>

\* Lines 142-145: the network answered; the put is started, and networkPromise
\* resolves with the response.
SwrFetchOk(i) ==
    /\ task[i].strategy = "staleWhileRevalidate"
    /\ task[i].net = "inflight"
    /\ task' = [task EXCEPT ![i] =
            [@ EXCEPT !.net = "ok", !.put = "pending", !.putStore = task[i].cacheName,
                      !.result = IF task[i].pc = "wait" THEN NetworkResponse(task[i].req.url, i) ELSE task[i].result,
                      !.pc = "done"]]
    /\ UNCHANGED Others

\* Line 146: the network failed; networkPromise resolves with undefined.
SwrFetchFails(i) ==
    /\ task[i].strategy = "staleWhileRevalidate"
    /\ task[i].net = "inflight"
    /\ task' = [task EXCEPT ![i] =
            [@ EXCEPT !.net = "failed",
                      !.result = IF task[i].pc = "wait" THEN Undefined ELSE task[i].result,
                      !.pc = "done"]]
    /\ UNCHANGED Others

----------------------------------------------------------------------------
(* cacheFirst (sw.js 150-157) *)

\* Variant: the network fetch is started on a hit as well.
CacheFirstLookupAlwaysFetches(i) ==
    /\ task[i].strategy = "cacheFirst"
    /\ task[i].pc = "lookup"
    /\ cacheNames' = Opened(task[i].cacheName)
    /\ task' = [task EXCEPT ![i] =
            LET cached == CacheMatch(task[i].cacheName, task[i].req.url)
            IN  [@ EXCEPT !.cached = cached, !.net = "inflight", !.pc = "fetch"]]
    /\ UNCHANGED <<content, Handlers>>

\* Variant: single-flight; a miss shares the fetch another task has in flight
\* for the same resource.
CacheFirstLookupSingleFlight(i) ==
    /\ task[i].strategy = "cacheFirst"
    /\ task[i].pc = "lookup"
    /\ cacheNames' = Opened(task[i].cacheName)
    /\ task' = [task EXCEPT ![i] =
            LET cached == CacheMatch(task[i].cacheName, task[i].req.url)
                shared == \E j \in Slots \ {i} :
                              /\ task[j].req = task[i].req
                              /\ task[j].net = "inflight"
            IN  IF Truthy(cached)
                    THEN [@ EXCEPT !.cached = cached, !.result = cached, !.pc = "done"]
                ELSE IF shared
                    THEN [@ EXCEPT !.result = NetworkPromise, !.pc = "done"]
                ELSE [@ EXCEPT !.net = "inflight", !.pc = "fetch"]]
    /\ UNCHANGED <<content, Handlers>>

\* Lines 151-153: a hit is returned, a miss starts the network fetch.
CacheFirstLookup(i) ==
    /\ task[i].strategy = "cacheFirst"
    /\ task[i].pc = "lookup"
    /\ cacheNames' = Opened(task[i].cacheName)
    /\ task' = [task EXCEPT ![i] =
            LET cached == CacheMatch(task[i].cacheName, task[i].req.url)
            IN  IF Truthy(cached)
                    THEN [@ EXCEPT !.cached = cached, !.result = cached, !.pc = "done"]
                    ELSE [@ EXCEPT !.net = "inflight", !.pc = "fetch"]]
    /\ UNCHANGED <<content, Handlers>>

\* Lines 154-156: the network answered.
CacheFirstFetchOk(i) ==
    /\ task[i].strategy = "cacheFirst"
    /\ task[i].pc = "fetch"
    /\ task' = [task EXCEPT ![i] = PutStartedAndReturned(@, i, task[i].cacheName)]
    /\ UNCHANGED Others

\* Variant: the failure is answered with an empty 504.
CacheFirstFetchFailsAnswered(i) ==
    /\ task[i].strategy = "cacheFirst"
    /\ task[i].pc = "fetch"
    /\ task' = [task EXCEPT ![i] = [@ EXCEPT !.net = "failed", !.result = Empty504, !.pc = "done"]]
    /\ UNCHANGED Others

\* Line 154 throws: the rejection is the function's result.
CacheFirstFetchFails(i) ==
    /\ task[i].strategy = "cacheFirst"
    /\ task[i].pc = "fetch"
    /\ task' = [task EXCEPT ![i] = [@ EXCEPT !.net = "failed", !.result = Rejected, !.pc = "done"]]
    /\ UNCHANGED Others

----------------------------------------------------------------------------
(* Specifications *)

Install == InstallEvent \/ (\E k \in DOMAIN PRECACHE_URLS : AddSettles(k)) \/ InstallSettles

Activate == ActivateEvent \/ (\E n \in StoreNames : CacheDeleted(n)) \/ ActivateClaims

Navigate(i) == NavigateFetchOk(i) \/ NavigateFetchFails(i) \/ NavigateCatch(i)

SameOrigin(i) ==
    \/ SameOriginMatch(i) \/ SameOriginFetchOk(i)
    \/ SameOriginFetchFails(i) \/ SameOriginCatch(i)

StaleWhileRevalidate(i) == SwrLookup(i) \/ SwrFetchOk(i) \/ SwrFetchFails(i)

CacheFirst(i) == CacheFirstLookup(i) \/ CacheFirstFetchOk(i) \/ CacheFirstFetchFails(i)

\* The worker's life with the application's own traffic.
Next ==
    \/ Install
    \/ Activate
    \/ \E i \in Slots :
         \/ \E request \in Requests : FetchEvent(i, request)
         \/ Navigate(i) \/ SameOrigin(i) \/ StaleWhileRevalidate(i)
         \/ PutCompletes(i)

Spec == Init /\ [][Next]_vars

\* The install handler alone.
SpecInstall == InitInstall /\ [][Install]_vars

\* The worker's life with stylesheet traffic alone (no other request reads or
\* writes the stylesheet store).
NextStyles ==
    \/ Install
    \/ Activate
    \/ \E i \in Slots :
         \/ FetchEvent(i, Stylesheet)
         \/ StaleWhileRevalidate(i)
         \/ PutCompletes(i)

\* A cache.put that was started completes: storage operations do not fail.
SpecStyles == Init /\ [][NextStyles]_vars /\ \A i \in Slots : WF_vars(PutCompletes(i))

\* A fetch event delivered to the active worker (activation has finished).
FetchEventActive(i, request) ==
    /\ pcActivate = "done"
    /\ FetchEvent(i, request)

\* The worker's life with every kind of traffic, delivered once it is active.
NextActive ==
    \/ Install
    \/ Activate
    \/ \E i \in Slots :
         \/ \E request \in AllRequests : FetchEventActive(i, request)
         \/ Navigate(i) \/ SameOrigin(i) \/ StaleWhileRevalidate(i) \/ CacheFirst(i)
         \/ PutCompletes(i)

SpecActive == InitUpgrade /\ [][NextActive]_vars

----------------------------------------------------------------------------
(* Properties *)

IsNavigate(i) == task[i].strategy = "navigate"
IsSameOrigin(i) == task[i].strategy = "sameOrigin"
IsSwr(i) == task[i].strategy = "staleWhileRevalidate"
Url(i) == task[i].req.url

\* The stores holding an entry that is task i's network response.
WrittenBy(i) ==
    {n \in StoreNames : \E u \in DOMAIN content[n] :
        content[n][u].kind = "network" /\ content[n][u].by = i}

ShellIndex == Entry(content[APP_CACHE], Scope \o "index.html")
ShellIcon == Entry(content[APP_CACHE], Scope \o "YSK-SALES.png")

\* C1: once the activate handler has completed, every existing cache store
\* bears one of the five declared names, whatever stores existed before and
\* whatever fetch handling ran meanwhile.
C1_OnlyWhitelistedAfterActivate ==
    pcActivate = "done" =>
        \A k \in DOMAIN cacheNames :
            cacheNames[k] \in {"ysk-app-shell-v3", "ysk-runtime-v3", "ysk-ext-styles-v1",
                               "ysk-ext-fonts-v1", "ysk-ext-libs-v1"}

\* Activate has completed after finding a legacy store, and a fetch task was
\* answered from that legacy store while activate was under way.
C1_Witness ==
    /\ pcActivate = "done"
    /\ \E k \in DOMAIN names : names[k] \in LegacyNames
    /\ \E i \in Slots : task[i].pc = "done" /\ task[i].result.kind = "persisted"
                          /\ IsSameOrigin(i)

\* C2: a stale-while-revalidate request that finds no cached entry and whose
\* network fetch fails is answered with the synthetic empty 504 response.
C2_Swr504WhenNothingAvailable ==
    \A i \in Slots :
        (IsSwr(i) /\ task[i].pc = "done" /\ task[i].cached = Undefined
            /\ task[i].net = "failed")
        => task[i].result = Empty504

\* C3 as stated: a navigation answered offline reflects the response an
\* earlier successful navigation stored in the runtime store.
C3_OfflineNavigationReflectsRuntimeStore ==
    [][\A i \in Slots :
        (IsNavigate(i) /\ task[i].pc = "catch" /\ task'[i].pc = "done"
            /\ Url(i) \in DOMAIN content[RUNTIME_CACHE])
        => task'[i].result = content[RUNTIME_CACHE][Url(i)]]_vars

\* C3 as amended: a navigation answered offline does not read the runtime
\* store; with a response of an earlier successful navigation stored there, it
\* still returns the shell store's index.html entry if there is one, and the
\* synthetic 503 otherwise.
C3_OfflineNavigationIgnoresRuntimeStore ==
    [][\A i \in Slots :
        (IsNavigate(i) /\ task[i].pc = "catch" /\ task'[i].pc = "done"
            /\ Url(i) \in DOMAIN content[RUNTIME_CACHE])
        => /\ task'[i].result # content[RUNTIME_CACHE][Url(i)]
           /\ task'[i].result = IF ShellIndex # Undefined THEN ShellIndex ELSE Offline503]_vars

\* A navigation has succeeded, been answered with the live response, and its
\* copy is in the runtime store; a navigation of the same URL has now failed
\* on the network and is about to be answered, with index.html in the shell.
C3_Witness ==
    \E i, j \in Slots :
        /\ i # j /\ IsNavigate(i) /\ IsNavigate(j) /\ Url(i) = Url(j)
        /\ task[j].put = "done" /\ task[j].result = NetworkResponse(Url(j), j)
        /\ Entry(content[RUNTIME_CACHE], Url(j)) = NetworkResponse(Url(j), j)
        /\ task[i].net = "failed" /\ task[i].pc = "catch"
        /\ ShellIndex # Undefined

\* C4: a navigation whose network fetch succeeds is answered with exactly that
\* network response; a copy is written to the runtime store under the
\* request's key, and to no other store.
C4_NavigationSuccess ==
    \A i \in Slots :
        (IsNavigate(i) /\ task[i].net = "ok")
        => /\ task[i].pc = "done"
           /\ task[i].result = NetworkResponse(Url(i), i)
           /\ task[i].put \in {"pending", "done"}
           /\ WrittenBy(i) \subseteq {RUNTIME_CACHE}
           /\ \A n \in StoreNames : \A u \in DOMAIN content[n] :
                 content[n][u] = NetworkResponse(Url(i), i) => u = Url(i)
           /\ task[i].put = "done" =>
                 /\ Url(i) \in DOMAIN content[RUNTIME_CACHE]
                 /\ \E j \in Slots :
                       /\ Url(j) = Url(i) /\ task[j].put = "done"
                       /\ content[RUNTIME_CACHE][Url(i)] = NetworkResponse(Url(i), j)

\* A successful navigation has been answered and its copy is in the runtime store.
C4_Witness ==
    \E i \in Slots :
        /\ IsNavigate(i) /\ task[i].net = "ok" /\ task[i].put = "done"
        /\ task[i].result = NetworkResponse(Url(i), i)
        /\ Entry(content[RUNTIME_CACHE], Url(i)) = task[i].result

\* C5: a navigation whose network fetch fails is answered with the shell
\* store's index.html entry if there is one and otherwise with the synthetic
\* 503 carrying the plain-text offline message; it is never rejected and it
\* writes no store.
C5_NavigationFailure ==
    \A i \in Slots :
        (IsNavigate(i) /\ task[i].net = "failed")
        => /\ task[i].put = "none"
           /\ WrittenBy(i) = {}
           /\ task[i].result # Rejected
           /\ task[i].pc = "done" =>
                 IF ShellIndex # Undefined
                     THEN task[i].result = ShellIndex
                     ELSE /\ task[i].result.kind = "synthetic"
                          /\ task[i].result.status = 503
                          /\ task[i].result.body =
                                "You are offline and no cached content is available."

\* A failed navigation has been answered with the synthetic 503.
C5_Witness ==
    \E i \in Slots :
        /\ IsNavigate(i) /\ task[i].net = "failed" /\ task[i].pc = "done"
        /\ ShellIndex = Undefined /\ task[i].result.status = 503

\* C6: the install completes successfully whichever precache entries fail to
\* be fetched: every entry settles, the install is never failed, and once it is
\* complete the shell store holds every entry whose fetch succeeded.
C6_InstallToleratesFailures ==
    /\ installResult # "failed"
    /\ pcInstall # "done" => ENABLED Install
    /\ pcInstall = "done" =>
          /\ installResult = "installed"
          /\ \A k \in DOMAIN PRECACHE_URLS :
                k \notin unreachable =>
                    Entry(content[APP_CACHE], Scope \o PRECACHE_URLS[k])
                        = NetworkResponse(Scope \o PRECACHE_URLS[k], 0)

\* An install has completed with some entries stored and others failed.
C6_Witness ==
    /\ pcInstall = "done" /\ installResult = "installed"
    /\ \E k \in DOMAIN PRECACHE_URLS : adds[k] = "rejected"
    /\ \E k \in DOMAIN PRECACHE_URLS :
          adds[k] = "fulfilled" /\ Scope \o PRECACHE_URLS[k] \in DOMAIN content[APP_CACHE]

\* The entries of the existing stores under url.
HeldAnywhere(url) ==
    {content[cacheNames[k]][url] :
        k \in {j \in DOMAIN cacheNames : url \in DOMAIN content[cacheNames[j]]}}

\* C7: a same-origin request that found no entry in any store and whose
\* network fetch succeeds is answered with the fresh network response, and the
\* entry then written to the runtime store under its key equals that response.
C7_SameOriginMissThenNetwork ==
    [][\A i \in Slots : IsSameOrigin(i) =>
        /\ (task[i].pc = "fetch" /\ task'[i].net = "ok") =>
              /\ task[i].cached = Undefined
              /\ task'[i].pc = "done"
              /\ task'[i].result = NetworkResponse(Url(i), i)
              /\ task'[i].put = "pending"
        /\ (task[i].put = "pending" /\ task'[i].put = "done") =>
              /\ task[i].result = NetworkResponse(Url(i), i)
              /\ task'[i].result = task[i].result
              /\ Url(i) \in DOMAIN content'[RUNTIME_CACHE]
              /\ content'[RUNTIME_CACHE][Url(i)] = task[i].result
              /\ \A n \in StoreNames \ {RUNTIME_CACHE} : content'[n] = content[n]]_vars

\* A same-origin miss has been answered from the network and its copy is in
\* the runtime store.
C7_Witness ==
    \E i \in Slots :
        /\ IsSameOrigin(i) /\ task[i].cached = Undefined
        /\ task[i].net = "ok" /\ task[i].put = "done"
        /\ task[i].result = NetworkResponse(Url(i), i)
        /\ Entry(content[RUNTIME_CACHE], Url(i)) = task[i].result

\* C8: a same-origin request for which some existing store (of any name)
\* holds a matching entry is answered with such an entry, and neither a
\* network fetch nor a store write is made for it.
C8_SameOriginHitAnyStore ==
    [][\A i \in Slots : IsSameOrigin(i) =>
        /\ (task[i].pc = "match" /\ task'[i].pc # "match" /\ HeldAnywhere(Url(i)) # {}) =>
              /\ task'[i].pc = "done"
              /\ task'[i].result \in HeldAnywhere(Url(i))
              /\ task'[i].cached = task'[i].result
              /\ task'[i].net = "none"
        /\ (task[i].pc = "done" /\ task[i].cached # Undefined) =>
              /\ task'[i] = task[i]
              /\ task[i].net = "none" /\ task[i].put = "none"
              /\ WrittenBy(i)' = {}]_vars

\* A same-origin request has been answered from a legacy store, with no
\* fetch and no write.
C8_Witness ==
    \E i \in Slots :
        /\ IsSameOrigin(i) /\ task[i].pc = "done"
        /\ task[i].result = PersistedResponse(Url(i))
        /\ task[i].net = "none" /\ task[i].put = "none"

\* C9: a same-origin request with no cache hit whose network fetch fails is
\* answered with the shell store's YSK-SALES.png entry when its destination
\* is an image and that entry exists, and is rejected in every other case.
C9_SameOriginFailure ==
    \A i \in Slots :
        (IsSameOrigin(i) /\ task[i].net = "failed" /\ task[i].pc = "done")
        => /\ task[i].cached = Undefined
           /\ task[i].put = "none"
           /\ IF task[i].req.destination = "image" /\ ShellIcon # Undefined
                 THEN task[i].result = ShellIcon
                 ELSE task[i].result = Rejected

\* A failed image request has been answered with the fallback image.
C9_Witness ==
    \E i \in Slots :
        /\ IsSameOrigin(i) /\ task[i].net = "failed" /\ task[i].pc = "done"
        /\ task[i].req.destination = "image"
        /\ task[i].result = NetworkResponse(Scope \o "YSK-SALES.png", 0)

\* C10: a stale-while-revalidate lookup that finds an entry answers with it at
\* once, while the network fetch it always starts is still in flight; when
\* that fetch succeeds the write of the new response to the designated store
\* is started, it completes, and the store then holds the new response; a
\* lookup returns what the store holds, so a later request gets the new value.
C10_StaleWhileRevalidate ==
    /\ [][\A i \in Slots : IsSwr(i) =>
            /\ (task[i].pc = "lookup" /\ task'[i].pc # "lookup") =>
                  /\ task'[i].net = "inflight"
                  /\ task'[i].cached = Entry(content[EXT_STYLES], Url(i))
                  /\ task'[i].cached # Undefined =>
                        task'[i].pc = "done" /\ task'[i].result = task'[i].cached
            /\ (task[i].net = "inflight" /\ task'[i].net = "ok") =>
                  task'[i].put = "pending"
            /\ (task[i].put = "pending" /\ task'[i].put = "done") =>
                  /\ Entry(content'[EXT_STYLES], Url(i)) = NetworkResponse(Url(i), i)
                  /\ \A n \in StoreNames \ {EXT_STYLES} : content'[n] = content[n]]_vars
    /\ \A i \in Slots :
          (IsSwr(i) /\ task[i].net = "ok") ~> (IsSwr(i) /\ task[i].put = "done")

\* A request was answered with the stale entry and its refresh has been
\* written; a later request for the same key was answered with the new value.
C10_Witness ==
    \E i, j \in Slots :
        /\ i # j /\ IsSwr(i) /\ IsSwr(j) /\ Url(i) = Url(j)
        /\ task[i].result = PersistedResponse(Url(i))
        /\ task[i].net = "ok" /\ task[i].put = "done"
        /\ task[j].pc = "done" /\ task[j].result = NetworkResponse(Url(i), i)

\* The fetch event of slot i has been delivered.
Delivered(i) == task[i].pc # "idle"

\* The handler returned from the event of slot i without respondWith, and did
\* nothing else: no branch entered, no lookup, no fetch, no put, no entry.
Untouched(i) ==
    /\ task[i].pc = "done"
    /\ task[i].strategy = "none"
    /\ task[i].result = NotIntercepted
    /\ task[i].cached = Undefined
    /\ task[i].net = "none"
    /\ task[i].put = "none"
    /\ task[i].cacheName = ""
    /\ WrittenBy(i) = {}

\* C11: a request whose method is not GET is never intercepted: no response is
\* supplied for it, no fetch is issued, no store is read or written, whatever
\* its mode, origin or hostname.
C11_NonGetNeverIntercepted ==
    \A i \in Slots : Delivered(i) /\ task[i].req.method # "GET" => Untouched(i)

\* A form submission (POST, navigate, same-origin) and a POST to a font host
\* have both been delivered.
C11_Witness ==
    \E i, j \in Slots :
        /\ Delivered(i) /\ task[i].req = PostForm
        /\ Delivered(j) /\ task[j].req = PostFont

\* One of the external host rules of lines 120-132 matches the request's hostname.
MatchesHostRule(request) ==
    \/ Includes(Hostname(request.url), "fonts.googleapis.com")
    \/ Includes(Hostname(request.url), "fonts.gstatic.com")
    \/ Includes(Hostname(request.url), "cdn.tailwindcss.com")
    \/ Includes(Hostname(request.url), "cdn.jsdelivr.net")
    \/ Includes(Hostname(request.url), "esm.sh")

\* The deliverable requests that are not same-origin and match no host rule.
UnmatchedRequests ==
    {r \in AllRequests : Origin(r.url) # LocationOrigin /\ ~MatchesHostRule(r)}

\* C12: a request that is not same-origin and whose hostname matches none of
\* the external host rules is never intercepted: no response is supplied for
\* it and no store is touched.
C12_UnmatchedHostNeverIntercepted ==
    \A i \in Slots :
        Delivered(i) /\ task[i].req \in UnmatchedRequests => Untouched(i)

\* A GET for another host has been delivered.
C12_Witness ==
    \E i \in Slots :
        /\ Delivered(i)
        /\ task[i].req = OtherHost
        /\ OtherHost \in UnmatchedRequests

\* The external cache-first requests: a GET, not a navigation, not
\* same-origin, not for a stylesheet host, for a font or a library host.
ExternalCacheFirstRequests ==
    {r \in AllRequests :
        /\ r.method = "GET"
        /\ r.mode # "navigate"
        /\ Origin(r.url) # LocationOrigin
        /\ ~Includes(Hostname(r.url), "fonts.googleapis.com")
        /\ \/ Includes(Hostname(r.url), "fonts.gstatic.com")
           \/ Includes(Hostname(r.url), "cdn.tailwindcss.com")
           \/ Includes(Hostname(r.url), "cdn.jsdelivr.net")
           \/ Includes(Hostname(r.url), "esm.sh")}

ExternalCacheFirst(i) == Delivered(i) /\ task[i].req \in ExternalCacheFirstRequests

\* C13: when the network fetch of an external cache-first request fails (the
\* fetch is only made after a miss in the designated store), the request is
\* rejected, no fallback response is substituted, and the step leaves every
\* store, the designated one included, as it was.
C13_ExternalCacheFirstFailure ==
    [][\A i \in Slots :
          ExternalCacheFirst(i) /\ task[i].net = "inflight" /\ task'[i].net = "failed"
            => /\ task[i].cached = Undefined
               /\ task'[i].result = Rejected
               /\ task'[i].pc = "done"
               /\ task'[i].put = "none"
               /\ content' = content
               /\ cacheNames' = cacheNames]_vars

\* A font request and a library request have both been rejected after a miss
\* and a failed fetch, and neither store holds an entry for them.
C13_Witness ==
    \E i, j \in Slots :
        /\ task[i].req = FontFile /\ task[i].net = "failed" /\ task[i].result = Rejected
        /\ FontFile.url \notin DOMAIN content[EXT_FONTS]
        /\ task[j].req = LibScript /\ task[j].net = "failed" /\ task[j].result = Rejected
        /\ LibScript.url \notin DOMAIN content[EXT_LIBS]

\* The handler called respondWith for the event of slot i.
Intercepted(i) == Delivered(i) /\ task[i].result # NotIntercepted

\* The promise given to respondWith for slot i has settled.
Settled(i) == Intercepted(i) /\ task[i].result # Pending

\* C14: the promise created for an intercepted request, whatever its category,
\* settles as a response or as a rejection, never as a value that is not a
\* response.
C14_SettlesAsResponseOrRejection ==
    \A i \in Slots :
        Settled(i) => IsResponse(task[i].result) \/ task[i].result = Rejected

\* The categories in the order of the chain, and whether the request matches each.
Categories == <<"navigation", "same-origin", "stylesheet", "font", "library">>

MatchesCategory(request, c) ==
    CASE c = "navigation" -> request.mode = "navigate"
      [] c = "same-origin" -> Origin(request.url) = LocationOrigin
      [] c = "stylesheet" -> Includes(Hostname(request.url), "fonts.googleapis.com")
      [] c = "font" -> Includes(Hostname(request.url), "fonts.gstatic.com")
      [] c = "library" -> \/ Includes(Hostname(request.url), "cdn.tailwindcss.com")
                          \/ Includes(Hostname(request.url), "cdn.jsdelivr.net")
                          \/ Includes(Hostname(request.url), "esm.sh")

Matching(request) == {k \in DOMAIN Categories : MatchesCategory(request, Categories[k])}

\* The first category the request matches ("" when it matches none).
FirstCategory(request) ==
    IF Matching(request) = {} THEN ""
    ELSE Categories[CHOOSE k \in Matching(request) : \A j \in Matching(request) : k <= j]

\* The first category of each deliverable request.
CategoryOf == [r \in AllRequests |-> FirstCategory(r)]

\* The strategy and the store the specification gives each category.
StrategyOfCategory(c) ==
    CASE c = "navigation" -> "navigate"
      [] c = "same-origin" -> "sameOrigin"
      [] c = "stylesheet" -> "staleWhileRevalidate"
      [] c = "font" -> "cacheFirst"
      [] c = "library" -> "cacheFirst"
      [] OTHER -> "none"

StoreOfCategory(c) ==
    CASE c = "navigation" -> "ysk-runtime-v3"
      [] c = "same-origin" -> "ysk-runtime-v3"
      [] c = "stylesheet" -> "ysk-ext-styles-v1"
      [] c = "font" -> "ysk-ext-fonts-v1"
      [] c = "library" -> "ysk-ext-libs-v1"
      [] OTHER -> ""

\* The positions each strategy's handling passes through.
PositionsOf(strategy) ==
    CASE strategy = "navigate" -> {"fetch", "catch", "done"}
      [] strategy = "sameOrigin" -> {"match", "fetch", "catch", "done"}
      [] strategy = "staleWhileRevalidate" -> {"lookup", "wait", "done"}
      [] strategy = "cacheFirst" -> {"lookup", "fetch", "done"}
      [] OTHER -> {"done"}

\* C15: classification is first-match-wins in the order navigation,
\* same-origin, stylesheet host, font host, library host: every GET request is
\* handled by the one strategy of the first category it matches, with that
\* category's store, and by no other; a GET matching no category is not
\* intercepted.
C15_FirstMatchWins ==
    \A i \in Slots :
        Delivered(i) /\ task[i].req.method = "GET"
            => /\ task[i].strategy = StrategyOfCategory(CategoryOf[task[i].req])
               /\ task[i].cacheName = StoreOfCategory(CategoryOf[task[i].req])
               /\ task[i].pc \in PositionsOf(StrategyOfCategory(CategoryOf[task[i].req]))
               /\ WrittenBy(i) \subseteq {StoreOfCategory(CategoryOf[task[i].req])}
               /\ Intercepted(i) <=> CategoryOf[task[i].req] # ""

\* A same-origin navigation (it matches the first two categories) has been
\* handled network-first, and a request whose hostname matches both the
\* stylesheet and the font rule has been handled as a stylesheet.
C15_Witness ==
    \E i, j \in Slots :
        /\ task[i].req = NavigateRoot /\ CategoryOf[NavigateRoot] = "navigation"
        /\ task[i].strategy = "navigate" /\ task[i].put = "done"
        /\ task[j].req = TwoFontHosts /\ CategoryOf[TwoFontHosts] = "stylesheet"
        /\ task[j].strategy = "staleWhileRevalidate" /\ task[j].put = "done"
        /\ TwoFontHosts.url \in DOMAIN content[EXT_STYLES]

\* Slot i is handled cache-first (same-origin branch or cacheFirst) and its
\* lookup is about to find nothing.
CacheFirstMiss(i) ==
    \/ /\ task[i].strategy = "cacheFirst"
       /\ task[i].pc = "lookup"
       /\ Url(i) \notin DOMAIN content[task[i].cacheName]
    \/ /\ task[i].strategy = "sameOrigin"
       /\ task[i].pc = "match"
       /\ \A n \in StoreNames : Url(i) \notin DOMAIN content[n]

\* C16: there is no single-flight deduplication and the last write wins: a
\* cache-first lookup that misses always starts a network fetch of its own,
\* whatever other requests for the same resource are in flight, and a put
\* that completes leaves its own response as the store's entry, whatever
\* entry another request had written there.
C16_NoSingleFlightLastWriteWins ==
    [][\A i \in Slots :
          /\ CacheFirstMiss(i) /\ task'[i].pc # task[i].pc
                => task'[i].net = "inflight" /\ task'[i].pc = "fetch"
          /\ task[i].put = "pending" /\ task'[i].put = "done"
                => content'[task[i].putStore][Url(i)] = NetworkResponse(Url(i), i)]_vars

\* Two requests for the same font both missed and both fetched; both puts
\* have completed, the first request's last, and its response is the entry.
C16_Witness ==
    \E i, j \in Slots :
        /\ i < j
        /\ task[i].req = FontFile /\ task[j].req = FontFile
        /\ task[i].cached = Undefined /\ task[j].cached = Undefined
        /\ task[i].net = "ok" /\ task[j].net = "ok"
        /\ task[i].put = "done" /\ task[j].put = "done"
        /\ content[EXT_FONTS][FontFile.url] = NetworkResponse(FontFile.url, i)

\* Slot i is handled by a cache-first branch (same-origin or cacheFirst), or
\* by one of those or staleWhileRevalidate.
IsCacheFirst(i) == task[i].strategy \in {"sameOrigin", "cacheFirst"}
LooksUpFirst(i) == IsCacheFirst(i) \/ IsSwr(i)

\* The fetch of slot i has been started.
FetchStarted(i) == task[i].net # "none"

\* C17: within one cache-first or stale-while-revalidate request the lookup
\* has completed before the network fetch is started, a store write is made
\* only after that request's own fetch succeeded, and in the cache-first
\* strategies the fetch is started only when the lookup missed.
C17_LookupThenFetchThenWrite ==
    \A i \in Slots :
        LooksUpFirst(i) =>
            /\ FetchStarted(i) => task[i].pc \notin {"lookup", "match"}
            /\ task[i].put # "none" \/ WrittenBy(i) # {} => task[i].net = "ok"
            /\ IsCacheFirst(i) /\ FetchStarted(i) => task[i].cached = Undefined

\* A font request that missed has fetched and written its store, while a
\* second request for the same font was answered from that entry without
\* any fetch.
C17_Witness ==
    \E i, j \in Slots :
        /\ task[i].req = FontFile /\ task[i].cached = Undefined
        /\ task[i].net = "ok" /\ task[i].put = "done"
        /\ task[j].req = FontFile /\ task[j].pc = "done"
        /\ task[j].cached = NetworkResponse(FontFile.url, i)
        /\ task[j].net = "none" /\ task[j].put = "none"

\* The stores activate found and had to delete.
FoundStale == {names[k] : k \in {j \in DOMAIN names : names[j] \notin whitelist}}

\* C18: the activate handler claims the open pages only after the deletion of
\* every store outside the whitelist has completed.
C18_ClaimAfterDeletions ==
    claimed =>
        /\ deleting = {}
        /\ \A n \in FoundStale : ~Exists(n) /\ content[n] = EmptyStore

\* The pages have been claimed by an activation that found a legacy store.
C18_Witness == claimed /\ FoundStale # {}

\* The categories of request the specification lets write each store (none
\* for the shell store, which is the install handler's).
WritersOf(n) ==
    CASE n = "ysk-runtime-v3" -> {"navigation", "same-origin"}
      [] n = "ysk-ext-styles-v1" -> {"stylesheet"}
      [] n = "ysk-ext-fonts-v1" -> {"font"}
      [] n = "ysk-ext-libs-v1" -> {"library"}
      [] OTHER -> {}

\* The step is a cache.add of the install handler completing.
InstallWrites == pcInstall = "adding" /\ adds' # adds /\ task' = task

\* The step is the completion of a put of slot i.
PutOf(i) == task[i].put = "pending" /\ task'[i].put = "done"

\* C19: the stores are partitioned by writer: the shell store is written only
\* by the install handler, the runtime store only by navigation and
\* same-origin requests, the stylesheet, font and library stores only by
\* requests of their own class, and no request writes more than one store.
C19_StoresPartitionedByWriter ==
    [][/\ \A n \in whitelist :
            content'[n] # content[n] =>
                IF n = "ysk-app-shell-v3" THEN InstallWrites
                ELSE \E i \in Slots :
                        /\ PutOf(i)
                        /\ CategoryOf[task[i].req] \in WritersOf(n)
                        /\ \A other \in whitelist \ {n} : content'[other] = content[other]
       /\ \A i \in Slots : Cardinality(WrittenBy(i)') <= 1]_vars

\* The install has filled the shell store, an image request has written the
\* runtime store and a library request the library store.
C19_Witness ==
    \E i, j \in Slots :
        /\ DOMAIN content[APP_CACHE] # {}
        /\ task[i].req = ImageAsset /\ WrittenBy(i) = {RUNTIME_CACHE}
        /\ task[j].req = LibScript /\ WrittenBy(j) = {EXT_LIBS}

\* The stores the fetch handler writes.
FetchStores == {"ysk-runtime-v3", "ysk-ext-styles-v1", "ysk-ext-fonts-v1", "ysk-ext-libs-v1"}

\* The entry under url is what an earlier session left, or the network
\* response that a delivered request for that very url received.
FromOwnNetworkResponse(url, entry) ==
    \/ entry.kind = "persisted" /\ entry.url = url
    \/ /\ entry.kind = "network"
       /\ entry.url = url
       /\ entry.by \in Slots
       /\ task[entry.by].req.url = url
       /\ task[entry.by].net = "ok"

EntriesFromNetwork ==
    \A n \in FetchStores : \A u \in DOMAIN content[n] : FromOwnNetworkResponse(u, content[n][u])

\* C20: every entry the fetch handler writes is a copy of the network response
\* received for that same request (never a synthetic 503 or 504, never a
\* fallback response), a request whose fetch failed writes nothing, and the
\* failure of a fetch leaves every store unchanged.
C20_OnlyNetworkResponsesStored ==
    [][/\ EntriesFromNetwork'
       /\ \A i \in Slots :
            /\ task'[i].net = "failed" => task'[i].put = "none" /\ WrittenBy(i)' = {}
            /\ task[i].net = "inflight" /\ task'[i].net = "failed"
                  => content' = content /\ cacheNames' = cacheNames]_vars

\* A navigation failed and was answered with the shell store's index.html,
\* which was not written to the runtime store, while a stylesheet request
\* wrote its own network response to the stylesheet store.
C20_Witness ==
    \E i, j \in Slots :
        /\ task[i].req = NavigateRoot /\ task[i].net = "failed"
        /\ task[i].result = ShellIndex /\ IsResponse(ShellIndex)
        /\ NavigateRoot.url \notin DOMAIN content[RUNTIME_CACHE]
        /\ task[j].req = Stylesheet /\ task[j].net = "ok" /\ task[j].put = "done"
        /\ content[EXT_STYLES][Stylesheet.url] = NetworkResponse(Stylesheet.url, j)

====
